---------------------------- MODULE Spec2Model ----------------------------
(***************************************************************************)
(* The LR(1) driver of parsing/lrparser.py (class Lr) as a state machine.  *)
(*                                                                         *)
(* State: one Lr instance (its _spec, _stack, _start, _verbose), the       *)
(* interpreter's __debug__ flag, and the position of the call in progress  *)
(* (the loop of _act runs one iteration per step), the calls made since    *)
(* construction or reset, and a second instance built on the same          *)
(* specification object.  The compiled                                     *)
(* specification (parsing.automaton.Spec) is not part of lrparser.py: its  *)
(* tables are written out here for a few small grammars.                   *)
(***************************************************************************)
EXTENDS Naturals, Sequences, FiniteSets, TLC

VARIABLES
    debug,      \* __debug__: FALSE when the interpreter runs with -O
    spec,       \* Lr._spec: the name of the compiled specification handed to __init__
    inst,       \* "none" before __init__, "live" after it, "failed" if it raised
    stack,      \* Lr._stack: sequence of [sym, state]
    start,      \* Lr._start: <<>> stands for None, <<s>> for the list [s]
    verbose,    \* Lr._verbose
    pc,         \* "idle" | "act" (inside _act's loop) | "accept" (eoi, after token() returned)
    call,       \* public method in progress or last finished: "token" | "eoi" | "none"
    sym,        \* the symbol handed to _act by the call in progress
    ret,        \* outcome of the last finished token()/eoi(): "ok" or the exception's name
    op,         \* last public operation invoked on the instance
    hist,       \* descriptors of the token()/eoi() calls since __init__/reset()
    outs,       \* their outcomes, in order
    stack0,     \* _stack when the call in progress (or last finished) began
    start0,     \* _start at that moment
    muts,       \* stack mutations of that call, in order
    last,       \* what the last _production call received and returned
    calls,      \* number of token()/eoi() calls made so far
    args,       \* the calls since __init__/reset(), each with the symbol it passed
    shared,     \* the Spec object that spec names: the fields the engine reads
    twin        \* a second Lr instance constructed from the same Spec object

vars == <<debug, spec, inst, stack, start, verbose, pc, call, sym, ret, op,
          hist, outs, stack0, start0, muts, last, calls, args, shared, twin>>

\* Bounds of the model.
MaxCalls == 4

-----------------------------------------------------------------------------
(* Symbols.  A symbol instance is [cls, val, made]: its runtime class, its  *)
(* payload or semantic value, and who constructed it.                       *)

Sym(cls, val, made) == [cls |-> cls, val |-> val, made |-> made]

\* Python's None where a symbol is expected.
None == Sym("NoneType", 0, "none")

\* Epsilon(self), the bottom-of-stack sentinel built by reset().
Epsilon == Sym("Epsilon", 0, "parser")

\* EndOfInput(self), the terminal built by eoi().
EndOfInput == Sym("EndOfInput", 0, "parser")

\* A token instance as the lexer hands it to token().
Token(cls, val) == Sym(cls, val, "lexer")

\* ShiftAction(nextState) and ReduceAction(production) of parsing.grammar.
ShiftAction(n) == [type |-> "ShiftAction", nextState |-> n, production |-> ""]

ReduceAction(p) == [type |-> "ReduceAction", nextState |-> 0, production |-> p]

\* A Production: its left-hand-side descriptor, right-hand side, and handler.
Production(lhs, rhs, method) == [lhs |-> lhs, rhs |-> rhs, method |-> method]

-----------------------------------------------------------------------------
(* Compiled specifications.  A Spec carries the action table (state ->      *)
(* descriptor -> list of actions), the goto table (state -> nonterminal     *)
(* descriptor -> state), the productions, the registry from runtime class   *)
(* to descriptor, the start descriptor and the conflict count.  The tables  *)
(* below are the LR(1) automata of the grammars named, with <S> -> Start    *)
(* <$> as the augmented production; states with the same core are merged.   *)

\* E -> E plus T | T ;  T -> number
\* Item sets (Expr: 7 states, 0 conflicts):
\* 0: <S> ->  . E <$> {<e>}; E ->  . E plus T {<$>}; E ->  . E plus T {plus}; E ->  . T {<$>}; E ->  . T {plus}; T ->  . number {<$>}; T ->  . number {plus}
\* 1: <S> -> E . <$> {<e>}; E -> E . plus T {<$>}; E -> E . plus T {plus}
\* 2: E -> T .  {<$>}; E -> T .  {plus}
\* 3: T -> number .  {<$>}; T -> number .  {plus}
\* 4: <S> -> E <$> .  {<e>}
\* 5: E -> E plus . T {<$>}; E -> E plus . T {plus}; T ->  . number {<$>}; T ->  . number {plus}
\* 6: E -> E plus T .  {<$>}; E -> E plus T .  {plus}
ExprAction ==
    [s \in 0..6 |->
       CASE s = 0 -> ("number" :> <<ShiftAction(3)>>)
         [] s = 1 -> ("<$>" :> <<ShiftAction(4)>>) @@ ("plus" :> <<ShiftAction(5)>>)
         [] s = 2 -> ("<$>" :> <<ReduceAction("E_T")>>) @@ ("plus" :> <<ReduceAction("E_T")>>)
         [] s = 3 -> ("<$>" :> <<ReduceAction("T_number")>>) @@ ("plus" :> <<ReduceAction("T_number")>>)
         [] s = 4 -> <<>>
         [] s = 5 -> ("number" :> <<ShiftAction(3)>>)
         [] s = 6 -> ("<$>" :> <<ReduceAction("E_plus")>>) @@ ("plus" :> <<ReduceAction("E_plus")>>)]

ExprGoto ==
    [s \in 0..6 |->
       CASE s = 0 -> ("E" :> 1) @@ ("T" :> 2)
         [] s = 1 -> <<>>
         [] s = 2 -> <<>>
         [] s = 3 -> <<>>
         [] s = 4 -> <<>>
         [] s = 5 -> ("T" :> 6)
         [] s = 6 -> <<>>]

ExprProductions ==
    ("E_plus" :> Production("E", <<"E", "plus", "T">>, "sum")) @@
    ("E_T" :> Production("E", <<"T">>, "copy")) @@
    ("T_number" :> Production("T", <<"number">>, "wrap"))

ExprSpec ==
    [name |-> "Expr", action |-> ExprAction, goto |-> ExprGoto,
     productions |-> ExprProductions,
     sym2spec |-> ("TokenNumber" :> "number") @@ ("TokenPlus" :> "plus") @@ ("NontermE" :> "E") @@ ("NontermT" :> "T") @@ ("EndOfInput" :> "<$>") @@ ("Epsilon" :> "<e>"),
     nontermType |-> ("E" :> "NontermE") @@ ("T" :> "NontermT"),
     userStartSym |-> "E", nConflicts |-> 0, pureLR |-> TRUE]

\* Opt -> (empty) | bang
\* Item sets (Opt: 4 states, 0 conflicts):
\* 0: <S> ->  . Opt <$> {<e>}; Opt ->  .  {<$>}; Opt ->  . bang {<$>}
\* 1: <S> -> Opt . <$> {<e>}
\* 2: Opt -> bang .  {<$>}
\* 3: <S> -> Opt <$> .  {<e>}
OptAction ==
    [s \in 0..3 |->
       CASE s = 0 -> ("bang" :> <<ShiftAction(2)>>) @@ ("<$>" :> <<ReduceAction("Opt_empty")>>)
         [] s = 1 -> ("<$>" :> <<ShiftAction(3)>>)
         [] s = 2 -> ("<$>" :> <<ReduceAction("Opt_bang")>>)
         [] s = 3 -> <<>>]

OptGoto ==
    [s \in 0..3 |->
       CASE s = 0 -> ("Opt" :> 1)
         [] s = 1 -> <<>>
         [] s = 2 -> <<>>
         [] s = 3 -> <<>>]

OptProductions ==
    ("Opt_empty" :> Production("Opt", <<>>, "nop")) @@
    ("Opt_bang" :> Production("Opt", <<"bang">>, "one"))

OptSpec ==
    [name |-> "Opt", action |-> OptAction, goto |-> OptGoto,
     productions |-> OptProductions,
     sym2spec |-> ("TokenBang" :> "bang") @@ ("NontermOpt" :> "Opt") @@ ("EndOfInput" :> "<$>") @@ ("Epsilon" :> "<e>"),
     nontermType |-> ("Opt" :> "NontermOpt"),
     userStartSym |-> "Opt", nConflicts |-> 0, pureLR |-> TRUE]

\* P -> P plus A | A ;  A -> number | lparen P rparen.  Its reduce states carry
\* merged lookahead sets, so an invalid token can be met after some reductions.
\* Item sets (Paren: 10 states, 0 conflicts):
\* 0: <S> ->  . P <$> {<e>}; P ->  . P plus A {<$>}; P ->  . P plus A {plus}; P ->  . A {<$>}; P ->  . A {plus}; A ->  . number {<$>}; A ->  . number {plus}; A ->  . lparen P rparen {<$>}; A ->  . lparen P rparen {plus}
\* 1: <S> -> P . <$> {<e>}; P -> P . plus A {<$>}; P -> P . plus A {plus}
\* 2: P -> A .  {<$>}; P -> A .  {plus}; P -> A .  {rparen}
\* 3: A -> number .  {<$>}; A -> number .  {plus}; A -> number .  {rparen}
\* 4: P ->  . P plus A {plus}; P ->  . P plus A {rparen}; P ->  . A {plus}; P ->  . A {rparen}; A ->  . number {plus}; A ->  . number {rparen}; A ->  . lparen P rparen {plus}; A ->  . lparen P rparen {rparen}; A -> lparen . P rparen {<$>}; A -> lparen . P rparen {plus}; A -> lparen . P rparen {rparen}
\* 5: <S> -> P <$> .  {<e>}
\* 6: P -> P plus . A {<$>}; P -> P plus . A {plus}; P -> P plus . A {rparen}; A ->  . number {<$>}; A ->  . number {plus}; A ->  . number {rparen}; A ->  . lparen P rparen {<$>}; A ->  . lparen P rparen {plus}; A ->  . lparen P rparen {rparen}
\* 7: P -> P . plus A {plus}; P -> P . plus A {rparen}; A -> lparen P . rparen {<$>}; A -> lparen P . rparen {plus}; A -> lparen P . rparen {rparen}
\* 8: P -> P plus A .  {<$>}; P -> P plus A .  {plus}; P -> P plus A .  {rparen}
\* 9: A -> lparen P rparen .  {<$>}; A -> lparen P rparen .  {plus}; A -> lparen P rparen .  {rparen}
ParenAction ==
    [s \in 0..9 |->
       CASE s = 0 -> ("number" :> <<ShiftAction(3)>>) @@ ("lparen" :> <<ShiftAction(4)>>)
         [] s = 1 -> ("<$>" :> <<ShiftAction(5)>>) @@ ("plus" :> <<ShiftAction(6)>>)
         [] s = 2 -> ("<$>" :> <<ReduceAction("P_A")>>) @@ ("plus" :> <<ReduceAction("P_A")>>) @@ ("rparen" :> <<ReduceAction("P_A")>>)
         [] s = 3 -> ("<$>" :> <<ReduceAction("A_number")>>) @@ ("plus" :> <<ReduceAction("A_number")>>) @@ ("rparen" :> <<ReduceAction("A_number")>>)
         [] s = 4 -> ("number" :> <<ShiftAction(3)>>) @@ ("lparen" :> <<ShiftAction(4)>>)
         [] s = 5 -> <<>>
         [] s = 6 -> ("number" :> <<ShiftAction(3)>>) @@ ("lparen" :> <<ShiftAction(4)>>)
         [] s = 7 -> ("plus" :> <<ShiftAction(6)>>) @@ ("rparen" :> <<ShiftAction(9)>>)
         [] s = 8 -> ("<$>" :> <<ReduceAction("P_plus")>>) @@ ("plus" :> <<ReduceAction("P_plus")>>) @@ ("rparen" :> <<ReduceAction("P_plus")>>)
         [] s = 9 -> ("<$>" :> <<ReduceAction("A_paren")>>) @@ ("plus" :> <<ReduceAction("A_paren")>>) @@ ("rparen" :> <<ReduceAction("A_paren")>>)]

ParenGoto ==
    [s \in 0..9 |->
       CASE s = 0 -> ("P" :> 1) @@ ("A" :> 2)
         [] s = 1 -> <<>>
         [] s = 2 -> <<>>
         [] s = 3 -> <<>>
         [] s = 4 -> ("P" :> 7) @@ ("A" :> 2)
         [] s = 5 -> <<>>
         [] s = 6 -> ("A" :> 8)
         [] s = 7 -> <<>>
         [] s = 8 -> <<>>
         [] s = 9 -> <<>>]

ParenProductions ==
    ("P_plus" :> Production("P", <<"P", "plus", "A">>, "sum")) @@
    ("P_A" :> Production("P", <<"A">>, "copy")) @@
    ("A_number" :> Production("A", <<"number">>, "wrap")) @@
    ("A_paren" :> Production("A", <<"lparen", "P", "rparen">>, "inner"))

ParenSpec ==
    [name |-> "Paren", action |-> ParenAction, goto |-> ParenGoto,
     productions |-> ParenProductions,
     sym2spec |-> ("TokenNumber" :> "number") @@ ("TokenPlus" :> "plus") @@ ("TokenLParen" :> "lparen") @@ ("TokenRParen" :> "rparen") @@ ("NontermP" :> "P") @@ ("NontermA" :> "A") @@ ("EndOfInput" :> "<$>") @@ ("Epsilon" :> "<e>"),
     nontermType |-> ("P" :> "NontermP") @@ ("A" :> "NontermA"),
     userStartSym |-> "P", nConflicts |-> 0, pureLR |-> TRUE]

\* X -> X plus X | number: ambiguous, one unresolved shift/reduce conflict in
\* state 5, whose entry for plus holds two actions.
\* Item sets (Ambig: 6 states, 1 conflicts):
\* 0: <S> ->  . X <$> {<e>}; X ->  . X plus X {<$>}; X ->  . X plus X {plus}; X ->  . number {<$>}; X ->  . number {plus}
\* 1: <S> -> X . <$> {<e>}; X -> X . plus X {<$>}; X -> X . plus X {plus}
\* 2: X -> number .  {<$>}; X -> number .  {plus}
\* 3: <S> -> X <$> .  {<e>}
\* 4: X ->  . X plus X {<$>}; X ->  . X plus X {plus}; X -> X plus . X {<$>}; X -> X plus . X {plus}; X ->  . number {<$>}; X ->  . number {plus}
\* 5: X -> X . plus X {<$>}; X -> X . plus X {plus}; X -> X plus X .  {<$>}; X -> X plus X .  {plus}
AmbigAction ==
    [s \in 0..5 |->
       CASE s = 0 -> ("number" :> <<ShiftAction(2)>>)
         [] s = 1 -> ("<$>" :> <<ShiftAction(3)>>) @@ ("plus" :> <<ShiftAction(4)>>)
         [] s = 2 -> ("<$>" :> <<ReduceAction("X_number")>>) @@ ("plus" :> <<ReduceAction("X_number")>>)
         [] s = 3 -> <<>>
         [] s = 4 -> ("number" :> <<ShiftAction(2)>>)
         [] s = 5 -> ("plus" :> <<ReduceAction("X_plus"), ShiftAction(4)>>) @@ ("<$>" :> <<ReduceAction("X_plus")>>)]

AmbigGoto ==
    [s \in 0..5 |->
       CASE s = 0 -> ("X" :> 1)
         [] s = 1 -> <<>>
         [] s = 2 -> <<>>
         [] s = 3 -> <<>>
         [] s = 4 -> ("X" :> 5)
         [] s = 5 -> <<>>]

AmbigProductions ==
    ("X_plus" :> Production("X", <<"X", "plus", "X">>, "sum")) @@
    ("X_number" :> Production("X", <<"number">>, "wrap"))

AmbigSpec ==
    [name |-> "Ambig", action |-> AmbigAction, goto |-> AmbigGoto,
     productions |-> AmbigProductions,
     sym2spec |-> ("TokenNumber" :> "number") @@ ("TokenPlus" :> "plus") @@ ("NontermX" :> "X") @@ ("EndOfInput" :> "<$>") @@ ("Epsilon" :> "<e>"),
     nontermType |-> ("X" :> "NontermX"),
     userStartSym |-> "X", nConflicts |-> 1, pureLR |-> FALSE]

\* The tables of Expr with a handler for E -> T that returns its right-hand-side
\* symbol (a T) in place of an E: a specification whose accepted symbol does not
\* carry the start descriptor.
ExprPassSpec ==
    [ExprSpec EXCEPT !.name = "ExprPass",
                     !.productions = ("E_T" :> Production("E", <<"T">>, "pass")) @@ ExprProductions]

\* The tables of Expr without the goto entry for T in state 5: a specification
\* whose goto lookup misses when T -> number is reduced after a plus.
ExprNoGotoSpec ==
    [ExprSpec EXCEPT !.name = "ExprNoGoto",
                     !.goto = [ExprGoto EXCEPT ![5] = <<>>]]

\* The tables of Ambig with a conflict count of 0: a specification that passes
\* the assertions of __init__ and has an action entry holding two actions.
AmbigUncountedSpec ==
    [AmbigSpec EXCEPT !.name = "AmbigUncounted", !.nConflicts = 0, !.pureLR = TRUE]

\* The tables of Expr with a handler for E -> E plus T that raises.
ExprRaiseSpec ==
    [ExprSpec EXCEPT !.name = "ExprRaise",
                     !.productions = ("E_plus" :> Production("E", <<"E", "plus", "T">>, "raise"))
                                        @@ ExprProductions]

Specs == {ExprSpec, OptSpec, ParenSpec, AmbigSpec, ExprPassSpec}

\* Specifications whose tables are malformed although their conflict count is 0.
MalformedSpecs == {ExprNoGotoSpec, AmbigUncountedSpec}

\* Specifications with a semantic handler that raises.
FailingSpecs == {ExprRaiseSpec}

SpecNames == {sp.name : sp \in Specs}

AnySpecNames == {sp.name : sp \in Specs \cup MalformedSpecs \cup FailingSpecs}

\* The Spec object as the compiler built it, by name.
Compiled(name) == CHOOSE sp \in Specs \cup MalformedSpecs \cup FailingSpecs : sp.name = name

\* The Spec object that self._spec refers to, as it is now.
_spec == shared

\* The specifications that are conflict-free and whose handlers return nothing or a
\* symbol of the production's left-hand-side class.
WellFormed == {"Expr", "Opt", "Paren"}

\* The token instances a lexer for the grammar can hand to token().
Tokens(sp) ==
    CASE sp.name = "Expr"     -> {Token("TokenNumber", 1), Token("TokenNumber", 2), Token("TokenPlus", 0)}
      [] sp.name = "ExprPass" -> {Token("TokenNumber", 1), Token("TokenPlus", 0)}
      [] sp.name = "Opt"      -> {Token("TokenBang", 0)}
      [] sp.name = "Paren"    -> {Token("TokenNumber", 1), Token("TokenPlus", 0),
                                  Token("TokenLParen", 0), Token("TokenRParen", 0)}
      [] sp.name = "Ambig"    -> {Token("TokenNumber", 1), Token("TokenPlus", 0)}
      [] sp.name = "ExprNoGoto"     -> {Token("TokenNumber", 1), Token("TokenPlus", 0)}
      [] sp.name = "AmbigUncounted" -> {Token("TokenNumber", 1), Token("TokenPlus", 0)}
      [] sp.name = "ExprRaise"      -> {Token("TokenNumber", 1), Token("TokenPlus", 0)}

\* production.method(sym, *rhs): the semantic handlers of the grammars above.  A
\* handler may change the placeholder it is given (self) and returns None or a
\* symbol (ret).
Method(method, self, rhs) ==
    CASE method = "sum"   -> [self |-> [self EXCEPT !.val = rhs[1].val + rhs[3].val], ret |-> None]
      [] method = "copy"  -> [self |-> [self EXCEPT !.val = rhs[1].val], ret |-> None]
      [] method = "inner" -> [self |-> [self EXCEPT !.val = rhs[2].val], ret |-> None]
      [] method = "one"   -> [self |-> [self EXCEPT !.val = 1], ret |-> None]
      [] method = "nop"   -> [self |-> self, ret |-> None]
      [] method = "wrap"  -> [self |-> self, ret |-> Sym(self.cls, rhs[1].val, "handler")]
      [] method = "pass"  -> [self |-> self, ret |-> rhs[1]]
      [] method = "raise" -> [self |-> self, ret |-> None]

\* The exception production.method(sym, *rhs) raises, "" when it returns.
Raises(method) == IF method = "raise" THEN "ValueError" ELSE ""

-----------------------------------------------------------------------------
(* The engine.                                                              *)

Top(stk) == stk[Len(stk)]

Pop(stk, n) == SubSeq(stk, 1, Len(stk) - n)

\* A stack entry, the tuple (symbol, state).
Entry(s, st) == [sym |-> s, state |-> st]

\* What muts records of one stack mutation.
Mutation(kind, n, entry) == [kind |-> kind, n |-> n, entry |-> entry]

\* The record of a _production call that has not happened.
NoCall == [production |-> "", placeholder |-> None, self |-> None, rhs |-> <<>>,
           hret |-> None, r |-> None, exc |-> ""]

\* The second instance before its construction.
NoTwin == [inst |-> "none", stack |-> <<>>, start |-> <<>>, args |-> <<>>, outs |-> <<>>,
           during |-> "none"]

\* _printStack that, to line the state numbers up, writes the state it printed
\* first into the top entry.
_printStack_relabels(stk) == [stk EXCEPT ![Len(stk)].state = stk[1].state]

\* Lr._printStack: the stack it leaves.  It walks self._stack twice, printing
\* each entry's symbol and state, and assigns to nothing.
_printStack(stk) == stk

\* The tracing of "if self._verbose: self._printStack()": what it leaves of stk.
Traced(vb, stk) == IF vb THEN _printStack(stk) ELSE stk

\* _act that takes the action it uses out of the table ("actions.pop(0)").
_act_spec_popsAction(sp, stk, s) ==
    IF sp.sym2spec[s.cls] \in DOMAIN sp.action[Top(stk).state]
    THEN [sp EXCEPT !.action[Top(stk).state][sp.sym2spec[s.cls]] = Tail(@)]
    ELSE sp

\* What one iteration of the loop of Lr._act (with the _reduce it may call)
\* leaves of the Spec object sp: it reads _sym2spec, _action and _goto and
\* assigns to none of them.
_act_spec(sp, stk, s) == sp

\* reset() that leaves _start as it is.
reset_keepsStart == [start |-> start, stack |-> <<Entry(Epsilon, 0)>>]

\* Lr.reset: the values it assigns to _start and _stack.
reset_fields == [start |-> <<>>, stack |-> <<Entry(Epsilon, 0)>>]

\* __init__ without its assertions.
init_asserts_removed(dbg, sp) == TRUE

\* Lr.__init__: whether its assertions let construction go on.  Python runs
\* an assert statement only when __debug__ holds.
init_asserts(dbg, sp) == dbg => (sp.pureLR /\ sp.nConflicts = 0)

\* _production without the translation of None: the handler's value is dropped
\* and the placeholder always returned.
_production_alwaysPlaceholder(sp, name, rhs) ==
    LET production == sp.productions[name]
        sym0 == Sym(sp.nontermType[production.lhs], 0, "placeholder")
        h == Method(production.method, sym0, rhs)
    IN  [production |-> name, placeholder |-> sym0, self |-> h.self, rhs |-> rhs,
         hret |-> h.ret, r |-> h.self, exc |-> Raises(production.method)]

\* Lr._production: build the placeholder, call the handler, translate None; exc
\* is the exception the handler raised, in which case nothing is returned.
\* (Its assertion nRhs == len(production.rhs) holds of every call _reduce makes.)
_production(sp, name, rhs) ==
    LET production == sp.productions[name]
        sym0 == Sym(sp.nontermType[production.lhs], 0, "placeholder")
        h == Method(production.method, sym0, rhs)
    IN  [production |-> name, placeholder |-> sym0, self |-> h.self, rhs |-> rhs,
         hret |-> h.ret,
         r |-> IF h.ret = None THEN h.self ELSE h.ret,
         exc |-> Raises(production.method)]

\* _reduce that reads the goto state from the top entry before the pops.
_reduce_gotoBeforePop(sp, stk, name) ==
    LET production == sp.productions[name]
        nRhs == Len(production.rhs)
        rhs == [i \in 1..nRhs |-> stk[Len(stk) - nRhs + i].sym]
        pr == _production(sp, name, rhs)
        popped == Pop(stk, nRhs)
    IN  IF production.lhs \notin DOMAIN sp.goto[Top(stk).state]
        THEN [stack |-> popped, exc |-> "KeyError", pr |-> pr, n |-> nRhs]
        ELSE [stack |-> Append(popped,
                               Entry(pr.r, sp.goto[Top(stk).state][production.lhs])),
              exc |-> "", pr |-> pr, n |-> nRhs]

\* _reduce that pops with "del self._stack[-nRhs:]", which empties the stack
\* when nRhs is 0.
_reduce_sliceDelete(sp, stk, name) ==
    LET production == sp.productions[name]
        nRhs == Len(production.rhs)
        rhs == [i \in 1..nRhs |-> stk[Len(stk) - nRhs + i].sym]
        pr == _production(sp, name, rhs)
        popped == IF nRhs = 0 THEN <<>> ELSE Pop(stk, nRhs)
    IN  IF popped = <<>>
        THEN [stack |-> <<>>, exc |-> "IndexError", pr |-> pr, n |-> nRhs]
        ELSE [stack |-> Append(popped,
                               Entry(pr.r, sp.goto[Top(popped).state][production.lhs])),
              exc |-> "", pr |-> pr, n |-> nRhs]

\* _reduce that reports a goto lookup miss as UnexpectedToken.
_reduce_missIsUnexpected(sp, stk, name) ==
    LET production == sp.productions[name]
        nRhs == Len(production.rhs)
        rhs == [i \in 1..nRhs |-> stk[Len(stk) - nRhs + i].sym]
        pr == _production(sp, name, rhs)
        popped == Pop(stk, nRhs)
    IN  IF production.lhs \notin DOMAIN sp.goto[Top(popped).state]
        THEN [stack |-> popped, exc |-> "UnexpectedToken", pr |-> pr, n |-> nRhs]
        ELSE [stack |-> Append(popped,
                               Entry(pr.r, sp.goto[Top(popped).state][production.lhs])),
              exc |-> "", pr |-> pr, n |-> nRhs]

\* _reduce that collects the right-hand side with "self._stack[-nRhs:]", which
\* is the whole stack when nRhs is 0: _production's assertion on the number of
\* symbols fails, or without assertions the handler is called with too many
\* arguments.
_reduce_rhsSliceFromEnd(sp, stk, name) ==
    LET production == sp.productions[name]
        nRhs == Len(production.rhs)
        rhs == [i \in 1..nRhs |-> stk[Len(stk) - nRhs + i].sym]
        pr == _production(sp, name, rhs)
        popped == Pop(stk, nRhs)
    IN  IF nRhs = 0
        THEN [stack |-> stk, exc |-> IF debug THEN "AssertionError" ELSE "TypeError",
              pr |-> NoCall, n |-> nRhs]
        ELSE [stack |-> Append(popped,
                               Entry(pr.r, sp.goto[Top(popped).state][production.lhs])),
              exc |-> "", pr |-> pr, n |-> nRhs]

\* _reduce that looks the goto state up under the state of slot 0.
_reduce_gotoFromSlot0(sp, stk, name) ==
    LET production == sp.productions[name]
        nRhs == Len(production.rhs)
        rhs == [i \in 1..nRhs |-> stk[Len(stk) - nRhs + i].sym]
        pr == _production(sp, name, rhs)
        popped == Pop(stk, nRhs)
    IN  [stack |-> Append(popped, Entry(pr.r, sp.goto[stk[1].state][production.lhs])),
         exc |-> "", pr |-> pr, n |-> nRhs]

\* _reduce that hands the right-hand-side symbols to the handler top of stack
\* first.
_reduce_rhsReversed(sp, stk, name) ==
    LET production == sp.productions[name]
        nRhs == Len(production.rhs)
        rhs == [i \in 1..nRhs |-> stk[Len(stk) - i + 1].sym]
        pr == _production(sp, name, rhs)
        popped == Pop(stk, nRhs)
    IN  IF pr.exc # ""
        THEN [stack |-> stk, exc |-> pr.exc, pr |-> pr, n |-> nRhs]
        ELSE IF production.lhs \notin DOMAIN sp.goto[Top(popped).state]
        THEN [stack |-> popped, exc |-> "KeyError", pr |-> pr, n |-> nRhs]
        ELSE [stack |-> Append(popped,
                               Entry(pr.r, sp.goto[Top(popped).state][production.lhs])),
              exc |-> "", pr |-> pr, n |-> nRhs]

\* _reduce that pops the right-hand-side entries before it calls the handler.
_reduce_popsBeforeHandler(sp, stk, name) ==
    LET production == sp.productions[name]
        nRhs == Len(production.rhs)
        rhs == [i \in 1..nRhs |-> stk[Len(stk) - nRhs + i].sym]
        pr == _production(sp, name, rhs)
        popped == Pop(stk, nRhs)
    IN  IF pr.exc # ""
        THEN [stack |-> popped, exc |-> pr.exc, pr |-> pr, n |-> nRhs]
        ELSE IF production.lhs \notin DOMAIN sp.goto[Top(popped).state]
        THEN [stack |-> popped, exc |-> "KeyError", pr |-> pr, n |-> nRhs]
        ELSE [stack |-> Append(popped,
                               Entry(pr.r, sp.goto[Top(popped).state][production.lhs])),
              exc |-> "", pr |-> pr, n |-> nRhs]

\* Lr._reduce on stack stk: the stack it leaves, the exception it ends with
\* ("" for none) and the _production call it made.
_reduce(sp, stk, name) ==
    LET production == sp.productions[name]
        nRhs == Len(production.rhs)
        rhs == [i \in 1..nRhs |-> stk[Len(stk) - nRhs + i].sym]
        pr == _production(sp, name, rhs)
        popped == Pop(stk, nRhs)
    IN  IF nRhs > 2 * Len(stk)
        THEN \* self._stack[i] with i < -len(self._stack)
             [stack |-> stk, exc |-> "IndexError", pr |-> NoCall, n |-> nRhs]
        ELSE IF pr.exc # ""
        THEN \* the handler raised, at line 135, before any pop
             [stack |-> stk, exc |-> pr.exc, pr |-> pr, n |-> nRhs]
        ELSE IF nRhs >= Len(stk)
        THEN \* pop from, or self._stack[-1] of, an empty list
             [stack |-> <<>>, exc |-> "IndexError", pr |-> NoCall, n |-> nRhs]
        ELSE IF production.lhs \notin DOMAIN sp.goto[Top(popped).state]
        THEN [stack |-> popped, exc |-> "KeyError", pr |-> pr, n |-> nRhs]
        ELSE [stack |-> Append(popped,
                               Entry(pr.r, sp.goto[Top(popped).state][production.lhs])),
              exc |-> "", pr |-> pr, n |-> nRhs]

\* _act without the test "symSpec not in self.sp._action[top[1]]": a missing
\* entry surfaces as the KeyError of the lookup that follows.
_act_iteration_noMembershipTest(sp, vb, stk, s) ==
    LET top == Top(stk)
        symSpec == sp.sym2spec[s.cls]
        actions == sp.action[top.state][symSpec]
        action == actions[1]
        red == _reduce(sp, stk, action.production)
    IN  IF symSpec \notin DOMAIN sp.action[top.state]
        THEN [stack |-> stk, exc |-> "KeyError", brk |-> FALSE,
              muts |-> <<>>, pr |-> NoCall]
        ELSE IF action.type = "ShiftAction"
        THEN [stack |-> Append(stk, Entry(s, action.nextState)), exc |-> "",
              brk |-> TRUE,
              muts |-> <<Mutation("shift", 0, Entry(s, action.nextState))>>,
              pr |-> NoCall]
        ELSE [stack |-> IF red.exc = "" THEN Traced(vb, red.stack) ELSE red.stack,
              exc |-> red.exc, brk |-> FALSE,
              muts |-> IF red.exc = ""
                       THEN <<Mutation("reduce", red.n, Top(red.stack))>>
                       ELSE <<>>,
              pr |-> red.pr]

\* _act that leaves the loop after a reduce as it does after a shift.
_act_iteration_breakAfterReduce(sp, vb, stk, s) ==
    LET top == Top(stk)
        symSpec == sp.sym2spec[s.cls]
        actions == sp.action[top.state][symSpec]
        action == actions[1]
        red == _reduce(sp, stk, action.production)
    IN  IF symSpec \notin DOMAIN sp.action[top.state]
        THEN [stack |-> stk, exc |-> "UnexpectedToken", brk |-> FALSE,
              muts |-> <<>>, pr |-> NoCall]
        ELSE IF action.type = "ShiftAction"
        THEN [stack |-> Append(stk, Entry(s, action.nextState)), exc |-> "",
              brk |-> TRUE,
              muts |-> <<Mutation("shift", 0, Entry(s, action.nextState))>>,
              pr |-> NoCall]
        ELSE [stack |-> IF red.exc = "" THEN Traced(vb, red.stack) ELSE red.stack,
              exc |-> red.exc, brk |-> TRUE,
              muts |-> IF red.exc = ""
                       THEN <<Mutation("reduce", red.n, Top(red.stack))>>
                       ELSE <<>>,
              pr |-> red.pr]

\* _act that puts the stack back as the call found it before raising
\* UnexpectedToken.
_act_iteration_rollback(sp, vb, stk, s) ==
    LET top == Top(stk)
        symSpec == sp.sym2spec[s.cls]
        actions == sp.action[top.state][symSpec]
        action == actions[1]
        red == _reduce(sp, stk, action.production)
    IN  IF symSpec \notin DOMAIN sp.action[top.state]
        THEN [stack |-> stack0, exc |-> "UnexpectedToken", brk |-> FALSE,
              muts |-> <<>>, pr |-> NoCall]
        ELSE IF action.type = "ShiftAction"
        THEN [stack |-> Append(stk, Entry(s, action.nextState)), exc |-> "",
              brk |-> TRUE,
              muts |-> <<Mutation("shift", 0, Entry(s, action.nextState))>>,
              pr |-> NoCall]
        ELSE [stack |-> IF red.exc = "" THEN Traced(vb, red.stack) ELSE red.stack,
              exc |-> red.exc, brk |-> FALSE,
              muts |-> IF red.exc = ""
                       THEN <<Mutation("reduce", red.n, Top(red.stack))>>
                       ELSE <<>>,
              pr |-> red.pr]

\* _act that looks actions up under the state the call started in, not the
\* state of the entry now on top.
_act_iteration_staleState(sp, vb, stk, s) ==
    LET top == Top(stack0)
        symSpec == sp.sym2spec[s.cls]
        actions == sp.action[top.state][symSpec]
        action == actions[1]
        red == _reduce(sp, stk, action.production)
    IN  IF symSpec \notin DOMAIN sp.action[top.state]
        THEN [stack |-> stk, exc |-> "UnexpectedToken", brk |-> FALSE,
              muts |-> <<>>, pr |-> NoCall]
        ELSE IF action.type = "ShiftAction"
        THEN [stack |-> Append(stk, Entry(s, action.nextState)), exc |-> "",
              brk |-> TRUE,
              muts |-> <<Mutation("shift", 0, Entry(s, action.nextState))>>,
              pr |-> NoCall]
        ELSE [stack |-> IF red.exc = "" THEN Traced(vb, red.stack) ELSE red.stack,
              exc |-> red.exc, brk |-> FALSE,
              muts |-> IF red.exc = ""
                       THEN <<Mutation("reduce", red.n, Top(red.stack))>>
                       ELSE <<>>,
              pr |-> red.pr]

\* _act that, finding no entry for the incoming descriptor, goes round the loop
\* again ("continue") where the code raises.
_act_iteration_retriesOnNoEntry(sp, vb, stk, s) ==
    LET top == Top(stk)
        symSpec == sp.sym2spec[s.cls]
        actions == sp.action[top.state][symSpec]
        action == actions[1]
        red == _reduce(sp, stk, action.production)
    IN  IF symSpec \notin DOMAIN sp.action[top.state]
        THEN [stack |-> stk, exc |-> "", brk |-> FALSE,
              muts |-> <<>>, pr |-> NoCall]
        ELSE IF action.type = "ShiftAction"
        THEN [stack |-> Append(stk, Entry(s, action.nextState)), exc |-> "",
              brk |-> TRUE,
              muts |-> <<Mutation("shift", 0, Entry(s, action.nextState))>>,
              pr |-> NoCall]
        ELSE [stack |-> IF red.exc = "" THEN Traced(vb, red.stack) ELSE red.stack,
              exc |-> red.exc, brk |-> FALSE,
              muts |-> IF red.exc = ""
                       THEN <<Mutation("reduce", red.n, Top(red.stack))>>
                       ELSE <<>>,
              pr |-> red.pr]

\* One iteration of the loop of Lr._act on stack stk with incoming symbol s:
\* the stack it leaves, the exception it raises ("" for none), whether it
\* leaves the loop by break, the mutations it made and its _production call.
_act_iteration(sp, vb, stk, s) ==
    LET top == Top(stk)
        symSpec == sp.sym2spec[s.cls]
        actions == sp.action[top.state][symSpec]
        action == actions[1]
        red == _reduce(sp, stk, action.production)
    IN  IF symSpec \notin DOMAIN sp.action[top.state]
        THEN [stack |-> stk, exc |-> "UnexpectedToken", brk |-> FALSE,
              muts |-> <<>>, pr |-> NoCall]
        ELSE IF debug /\ Len(actions) # 1
        THEN [stack |-> stk, exc |-> "AssertionError", brk |-> FALSE,
              muts |-> <<>>, pr |-> NoCall]
        ELSE IF action.type = "ShiftAction"
        THEN [stack |-> Append(stk, Entry(s, action.nextState)), exc |-> "",
              brk |-> TRUE,
              muts |-> <<Mutation("shift", 0, Entry(s, action.nextState))>>,
              pr |-> NoCall]
        ELSE IF debug /\ action.type # "ReduceAction"
        THEN [stack |-> stk, exc |-> "AssertionError", brk |-> FALSE,
              muts |-> <<>>, pr |-> NoCall]
        ELSE [stack |-> IF red.exc = "" THEN Traced(vb, red.stack) ELSE red.stack,
              exc |-> red.exc, brk |-> FALSE,
              muts |-> IF red.exc = ""
                       THEN <<Mutation("reduce", red.n, Top(red.stack))>>
                       ELSE <<>>,
              pr |-> red.pr]

\* eoi() that takes the result from self._stack[0].
eoi_finish_slot0(sp, vb, stk, st, token) ==
    LET popped == Pop(Traced(vb, stk), 1)
        result == <<popped[1].sym>>
    IN  IF debug /\ Top(stk).sym # token
        THEN [stack |-> stk, start |-> st, exc |-> "AssertionError"]
        ELSE IF debug /\ sp.sym2spec[result[1].cls] # sp.userStartSym
        THEN [stack |-> popped, start |-> result, exc |-> "AssertionError"]
        ELSE [stack |-> popped, start |-> result, exc |-> ""]

\* eoi() without "self._stack.pop()": the sentinel stays on the stack.
eoi_finish_keepsSentinel(sp, vb, stk, st, token) ==
    LET result == <<stk[2].sym>>
    IN  IF debug /\ Top(stk).sym # token
        THEN [stack |-> stk, start |-> st, exc |-> "AssertionError"]
        ELSE IF debug /\ sp.sym2spec[result[1].cls] # sp.userStartSym
        THEN [stack |-> stk, start |-> result, exc |-> "AssertionError"]
        ELSE [stack |-> stk, start |-> result, exc |-> ""]

\* Lr.eoi after self.token(token) has returned: the stack and result it
\* leaves and the exception it ends with ("" for none).
eoi_finish(sp, vb, stk, st, token) ==
    LET popped == Pop(Traced(vb, stk), 1)
        result == <<popped[2].sym>>
    IN  IF debug /\ Top(stk).sym # token
        THEN [stack |-> stk, start |-> st, exc |-> "AssertionError"]
        ELSE IF Len(popped) < 2
        THEN [stack |-> popped, start |-> st, exc |-> "IndexError"]
        ELSE IF debug /\ sp.sym2spec[result[1].cls] # sp.userStartSym
        THEN [stack |-> popped, start |-> result, exc |-> "AssertionError"]
        ELSE [stack |-> popped, start |-> result, exc |-> ""]

-----------------------------------------------------------------------------
(* Actions.                                                                 *)

Init ==
    /\ debug \in BOOLEAN
    /\ spec \in SpecNames
    /\ inst = "none"
    /\ stack = <<>>
    /\ start = <<>>
    /\ verbose = FALSE
    /\ pc = "idle"
    /\ call = "none"
    /\ sym = None
    /\ ret = "none"
    /\ op = "none"
    /\ hist = <<>>
    /\ outs = <<>>
    /\ stack0 = <<>>
    /\ start0 = <<>>
    /\ muts = <<>>
    /\ last = NoCall
    /\ calls = 0
    /\ args = <<>>
    /\ shared = Compiled(spec)
    /\ twin = NoTwin

\* Lr(spec)
__init__ ==
    /\ inst = "none"
    /\ IF init_asserts(debug, _spec)
       THEN /\ inst' = "live"
            /\ start' = reset_fields.start
            /\ stack' = reset_fields.stack
            /\ verbose' = FALSE
       ELSE /\ inst' = "failed"
            /\ UNCHANGED <<start, stack, verbose>>
    /\ op' = "__init__"
    /\ UNCHANGED <<debug, spec, pc, call, sym, ret, hist, outs, stack0, start0,
                   muts, last, calls, args, shared, twin>>

\* parser.verbose = b
setVerbose ==
    /\ inst = "live"
    /\ pc = "idle"
    /\ \E b \in BOOLEAN : verbose' = b
    /\ op' = "verbose"
    /\ UNCHANGED <<debug, spec, inst, stack, start, pc, call, sym, ret, hist, outs,
                   stack0, start0, muts, last, calls, args, shared, twin>>

\* parser.reset()
reset ==
    /\ inst = "live"
    /\ pc = "idle"
    /\ start' = reset_fields.start
    /\ stack' = reset_fields.stack
    /\ op' = "reset"
    /\ hist' = <<>>
    /\ outs' = <<>>
    /\ stack0' = <<>>
    /\ start0' = <<>>
    /\ muts' = <<>>
    /\ last' = NoCall
    /\ args' = <<>>
    /\ UNCHANGED <<debug, spec, inst, verbose, pc, call, sym, ret, calls, shared, twin>>

\* What every token()/eoi() call does on entry, with its symbol t.
Enter(method, t) ==
    /\ inst = "live"
    /\ pc = "idle"
    /\ calls < MaxCalls
    /\ pc' = "act"
    /\ call' = method
    /\ sym' = t
    /\ op' = method
    /\ hist' = Append(hist, _spec.sym2spec[t.cls])
    /\ args' = Append(args, [method |-> method, sym |-> t])
    /\ stack0' = stack
    /\ start0' = start
    /\ muts' = <<>>
    /\ calls' = calls + 1
    /\ stack' = Traced(verbose, stack)
    /\ UNCHANGED <<debug, spec, inst, start, verbose, ret, outs, last, shared, twin>>

\* parser.token(t), up to the loop of _act
token == \E t \in Tokens(_spec) : Enter("token", t)

\* parser.eoi(), up to the loop of _act
eoi == Enter("eoi", EndOfInput)

\* One iteration of the loop of _act; the call ends when it raises, and
\* token() returns when it breaks.
_act ==
    /\ pc = "act"
    /\ shared' = _act_spec(shared, stack, sym)
    /\ \E it \in {_act_iteration(_spec, verbose, stack, sym)} :
           /\ stack' = it.stack
           /\ muts' = muts \o it.muts
           /\ last' = IF it.pr = NoCall THEN last ELSE it.pr
           /\ IF it.exc # ""
              THEN /\ pc' = "idle"
                   /\ ret' = it.exc
                   /\ outs' = Append(outs, it.exc)
              ELSE IF it.brk
              THEN IF call = "eoi"
                   THEN /\ pc' = "accept"
                        /\ UNCHANGED <<ret, outs>>
                   ELSE /\ pc' = "idle"
                        /\ ret' = "ok"
                        /\ outs' = Append(outs, "ok")
              ELSE /\ pc' = "act"
                   /\ UNCHANGED <<ret, outs>>
    /\ UNCHANGED <<debug, spec, inst, start, verbose, call, sym, op, hist, stack0,
                   start0, calls, args, twin>>

\* The rest of eoi() once token() has returned.
eoi_accept ==
    /\ pc = "accept"
    /\ \E a \in {eoi_finish(_spec, verbose, stack, start, sym)} :
           /\ stack' = a.stack
           /\ start' = a.start
           /\ ret' = IF a.exc = "" THEN "ok" ELSE a.exc
           /\ outs' = Append(outs, IF a.exc = "" THEN "ok" ELSE a.exc)
    /\ pc' = "idle"
    /\ UNCHANGED <<debug, spec, inst, verbose, call, sym, op, hist, stack0, start0,
                   muts, last, calls, args, shared, twin>>

Next ==
    \/ __init__
    \/ setVerbose
    \/ reset
    \/ token
    \/ eoi
    \/ _act
    \/ eoi_accept

Spec == Init /\ [][Next]_vars

\* The instance on a conflict-free, well-formed specification, tracing off as
\* __init__ leaves it, with the interpreter going on with a call it has
\* entered: an iteration of the loop of _act that can be taken is taken, and so
\* is the rest of eoi().
InitLive == Init /\ spec \in WellFormed

NextLive ==
    \/ __init__
    \/ reset
    \/ token
    \/ eoi
    \/ _act
    \/ eoi_accept

SpecLive == InitLive /\ [][NextLive]_vars /\ WF_vars(_act) /\ WF_vars(eoi_accept)

\* The same instance constructed from any specification, the malformed ones
\* included.
InitAny ==
    /\ debug \in BOOLEAN
    /\ spec \in AnySpecNames
    /\ inst = "none"
    /\ stack = <<>>
    /\ start = <<>>
    /\ verbose = FALSE
    /\ pc = "idle"
    /\ call = "none"
    /\ sym = None
    /\ ret = "none"
    /\ op = "none"
    /\ hist = <<>>
    /\ outs = <<>>
    /\ stack0 = <<>>
    /\ start0 = <<>>
    /\ muts = <<>>
    /\ last = NoCall
    /\ calls = 0
    /\ args = <<>>
    /\ shared = Compiled(spec)
    /\ twin = NoTwin

SpecAny == InitAny /\ [][Next]_vars

-----------------------------------------------------------------------------
(* Whole calls.  A token() or eoi() call run to its end in one piece, and a  *)
(* sequence of calls run on an instance of its own: the reference that the  *)
(* stepwise instance is compared with.                                      *)

\* A parse of MaxCalls calls has at most MaxCalls + 1 entries on its stack and
\* no grammar here reduces more than twice per entry it removes.
MaxIterations == 2 * MaxCalls + 2

\* The loop of Lr._act run from stack stk with symbol s until it raises or
\* breaks: the stack and Spec object it leaves and the exception it ends with.
RECURSIVE RunAct(_, _, _, _, _)

\* What the loop does after an iteration with outcome it that left the Spec
\* object as sp1: end on an exception or a break, or go round again.
ActLoop(vb, s, fuel, it, sp1) ==
    IF it.exc # "" \/ it.brk
    THEN [stack |-> it.stack, exc |-> it.exc, spec |-> sp1]
    ELSE IF fuel = 0
    THEN [stack |-> it.stack, exc |-> "Diverged", spec |-> sp1]
    ELSE RunAct(sp1, vb, it.stack, s, fuel - 1)

RunAct(sp, vb, stk, s, fuel) ==
    ActLoop(vb, s, fuel, _act_iteration(sp, vb, stk, s), _act_spec(sp, stk, s))

\* An instance's fields and the outcomes of its calls so far, with the Spec
\* object it runs on.
Instance(stk, st, os, sp) == [stack |-> stk, start |-> st, outs |-> os, spec |-> sp]

\* Lr.eoi after its loop, with f what eoi_finish made of the instance.
EoiEnd(i, a, f) ==
    Instance(f.stack, f.start, Append(i.outs, IF f.exc = "" THEN "ok" ELSE f.exc), a.spec)

\* Lr.token / Lr.eoi after the loop of _act ended as a.
CallEnd(vb, i, c, a) ==
    IF a.exc # ""
    THEN Instance(a.stack, i.start, Append(i.outs, a.exc), a.spec)
    ELSE IF c.method = "token"
    THEN Instance(a.stack, i.start, Append(i.outs, "ok"), a.spec)
    ELSE EoiEnd(i, a, eoi_finish(a.spec, vb, a.stack, i.start, c.sym))

\* Lr.token / Lr.eoi: the call c = [method, sym] run on instance i.
Call(vb, i, c) ==
    CallEnd(vb, i, c, RunAct(i.spec, vb, Traced(vb, i.stack), c.sym, MaxIterations))

RECURSIVE Run(_, _, _)
Run(vb, i, cs) ==
    IF cs = <<>> THEN i ELSE Run(vb, Call(vb, i, Head(cs)), Tail(cs))

\* The calls cs made, with tracing off throughout, on a fresh instance that has
\* the Spec object sp to itself.
Solo(sp, cs) ==
    Run(FALSE, Instance(reset_fields.stack, reset_fields.start, <<>>, sp), cs)

-----------------------------------------------------------------------------
(* A second instance on the same Spec object.  Its calls run in one piece,  *)
(* between any two steps of the first instance, the middle of a call of the *)
(* first instance included; twin.during records where the first instance    *)
(* was at the second one's last call.                                        *)

\* Lr(spec) for the second instance, from the Spec object the first one has.
twin__init__ ==
    /\ inst = "live"
    /\ twin.inst = "none"
    /\ twin' = [NoTwin EXCEPT !.inst = IF init_asserts(debug, shared) THEN "live" ELSE "failed",
                              !.stack = reset_fields.stack,
                              !.start = reset_fields.start]
    /\ UNCHANGED <<debug, spec, inst, stack, start, verbose, pc, call, sym, ret, op,
                   hist, outs, stack0, start0, muts, last, calls, args, shared>>

\* reset() on the second instance.
twin_reset ==
    /\ twin.inst = "live"
    /\ twin' = [twin EXCEPT !.stack = reset_fields.stack,
                            !.start = reset_fields.start,
                            !.args = <<>>, !.outs = <<>>, !.during = "none"]
    /\ UNCHANGED <<debug, spec, inst, stack, start, verbose, pc, call, sym, ret, op,
                   hist, outs, stack0, start0, muts, last, calls, args, shared>>

\* token(t) or eoi() on the second instance, tracing off.
twin_call ==
    /\ twin.inst = "live"
    /\ calls < MaxCalls
    /\ \E c \in {[method |-> "token", sym |-> t] : t \in Tokens(shared)}
                  \cup {[method |-> "eoi", sym |-> EndOfInput]} :
          \E r \in {Call(FALSE, Instance(twin.stack, twin.start, twin.outs, shared), c)} :
              /\ twin' = [twin EXCEPT !.stack = r.stack, !.start = r.start,
                                      !.outs = r.outs, !.args = Append(@, c),
                                      !.during = pc]
              /\ shared' = r.spec
    /\ calls' = calls + 1
    /\ UNCHANGED <<debug, spec, inst, stack, start, verbose, pc, call, sym, ret, op,
                   hist, outs, stack0, start0, muts, last, args>>

\* Two instances are run on the specifications Expr and Opt.
InitShared == Init /\ spec \in {"Expr", "Opt"}

NextShared ==
    \/ Next
    \/ twin__init__
    \/ twin_reset
    \/ twin_call

SpecShared == InitShared /\ [][NextShared]_vars

-----------------------------------------------------------------------------
(* The language of a specification's grammar, derived from its productions  *)
(* alone (never from its tables): leftmost derivations from the start       *)
(* descriptor, each sentential form cut to its first Window symbols.  A     *)
(* call history is compared with the first MaxCalls symbols of a form at     *)
(* most, and no grammar above has an empty production in a form that long,  *)
(* so the cut loses nothing.                                                *)

Window == MaxCalls + 1

Nonterminals(sp) == {sp.productions[n].lhs : n \in DOMAIN sp.productions}

Cut(s, cut) ==
    IF Len(s) > Window THEN [s |-> SubSeq(s, 1, Window), cut |-> TRUE]
    ELSE [s |-> s, cut |-> cut]

\* Position of the leftmost nonterminal of s, 0 if it has none.
Leftmost(sp, s) ==
    LET at == {i \in 1..Len(s) : s[i] \in Nonterminals(sp)}
    IN  IF at = {} THEN 0 ELSE CHOOSE i \in at : \A j \in at : i <= j

Expand(sp, f) ==
    LET i == Leftmost(sp, f.s)
    IN  IF i = 0 THEN {}
        ELSE {Cut(SubSeq(f.s, 1, i - 1) \o sp.productions[n].rhs
                    \o SubSeq(f.s, i + 1, Len(f.s)), f.cut) :
                n \in {k \in DOMAIN sp.productions : sp.productions[k].lhs = f.s[i]}}

RECURSIVE Derive(_, _, _)
Derive(sp, done, todo) ==
    IF todo = {} THEN done
    ELSE Derive(sp, done \cup todo,
                UNION {Expand(sp, f) : f \in todo} \ (done \cup todo))

\* The sentential forms of each specification's grammar.
Forms == [sp \in Specs |-> Derive(sp, {}, {[s |-> <<sp.userStartSym>>, cut |-> FALSE]})]

\* w, a sequence of terminal descriptors, is a sentence of the grammar.
IsSentence(sp, w) == [s |-> w, cut |-> FALSE] \in Forms[sp]

\* w, a sequence of terminal descriptors, begins some sentence of the grammar.
IsViablePrefix(sp, w) ==
    \E f \in Forms[sp] : Len(f.s) >= Len(w) /\ SubSeq(f.s, 1, Len(w)) = w

Front(h) == SubSeq(h, 1, Len(h) - 1)

\* The calls h (descriptors, <$> for eoi()) are a valid input so far: tokens
\* that begin a sentence, or a whole sentence followed by eoi().
ViableRun(sp, h) ==
    IF h # <<>> /\ h[Len(h)] = "<$>"
    THEN IsSentence(sp, Front(h))
    ELSE IsViablePrefix(sp, h)

\* No call before the i-th of hist was eoi() or made the input invalid.
ViableBefore(i) ==
    \A j \in 1..(i - 1) : hist[j] # "<$>" /\ ViableRun(_spec, SubSeq(hist, 1, j))

-----------------------------------------------------------------------------
(* Properties.                                                              *)

\* C1: on a conflict-free, well-formed specification, when the calls since
\* __init__/reset() are the terminals of a sentence of the grammar followed by
\* eoi(), every one of them returned normally and the result is a one-element
\* list whose symbol's descriptor is the start descriptor.
C1_ValidSentenceAccepted ==
    (/\ inst = "live"
     /\ pc = "idle"
     /\ spec \in WellFormed
     /\ hist # <<>>
     /\ hist[Len(hist)] = "<$>"
     /\ IsSentence(_spec, Front(hist)))
    => /\ \A i \in 1..Len(outs) : outs[i] = "ok"
       /\ Len(start) = 1
       /\ _spec.sym2spec[start[1].cls] = _spec.userStartSym

\* C1 witness: number(1) plus number(2) then eoi() on Expr was accepted as an E
\* of value 3.
C1_Witness ==
    /\ spec = "Expr"
    /\ pc = "idle"
    /\ hist = <<"number", "plus", "number", "<$>">>
    /\ ret = "ok"
    /\ Len(start) = 1
    /\ start[1].cls = "NontermE"
    /\ start[1].val = 3

\* C2 (as amended): on a conflict-free, well-formed specification, fed from a
\* fresh or reset parser, every call whose token keeps the input valid returns
\* normally, and the call for the first token that makes it invalid raises
\* UnexpectedToken.
C2_ErrorAtFirstInvalidToken ==
    (inst = "live" /\ pc = "idle" /\ spec \in WellFormed)
    => \A i \in 1..Len(hist) :
         ViableBefore(i)
         => outs[i] = IF ViableRun(_spec, SubSeq(hist, 1, i))
                      THEN "ok" ELSE "UnexpectedToken"

\* C2 witness: number plus then eoi() on Expr raised at eoi().
C2_Witness ==
    /\ spec = "Expr"
    /\ pc = "idle"
    /\ hist = <<"number", "plus", "<$>">>
    /\ outs = <<"ok", "ok", "UnexpectedToken">>

\* C2 as stated: as above, and no call made after the token that raised
\* returns normally.
C2_NoNormalReturnAfterError ==
    (inst = "live" /\ pc = "idle" /\ spec \in WellFormed)
    => \A i \in 1..Len(hist) :
         (ViableBefore(i) /\ ~ViableRun(_spec, SubSeq(hist, 1, i)))
         => /\ outs[i] = "UnexpectedToken"
            /\ \A k \in (i + 1)..Len(outs) : outs[k] # "ok"

\* The loop of _act is about to reduce: the top state has an entry for the
\* incoming descriptor and its action is a ReduceAction.
ReduceDue ==
    /\ pc = "act"
    /\ _spec.sym2spec[sym.cls] \in DOMAIN _spec.action[Top(stack).state]
    /\ _spec.action[Top(stack).state][_spec.sym2spec[sym.cls]][1].type = "ReduceAction"

\* The name of the production it is about to reduce by.
DueName == _spec.action[Top(stack).state][_spec.sym2spec[sym.cls]][1].production

DueProduction == _spec.productions[DueName]

\* C3: a reduce by a production with n right-hand-side symbols leaves the stack
\* one entry longer than the stack without its top n entries, and the entries
\* below those n are unchanged.
C3_ReductionArity ==
    [][ReduceDue
       => LET n == Len(DueProduction.rhs)
          IN  /\ Len(stack') = Len(stack) - n + 1
              /\ Pop(stack', 1) = Pop(stack, n)]_vars

\* C3 witness: a reduce by an empty production has just pushed one entry onto
\* the stack the call began with.
C3_Witness ==
    /\ pc = "act"
    /\ Len(muts) = 1
    /\ muts[1].kind = "reduce"
    /\ muts[1].n = 0
    /\ stack = Append(stack0, muts[1].entry)

\* C4: the symbol a reduce pushes is the value its handler returned, or, when the
\* handler returned None, the placeholder of the left-hand-side class that
\* _production built for this reduce and handed to the handler.
C4_DefaultResult ==
    [][ReduceDue
       => /\ last'.production = DueName
          /\ last'.placeholder =
                 Sym(_spec.nontermType[DueProduction.lhs], 0, "placeholder")
          /\ last'.self.made = "placeholder"
          /\ Top(stack').sym = IF last'.hret = None THEN last'.self ELSE last'.hret]_vars

\* C4 witness: in one call a reduce pushed its handler's value and another pushed
\* its placeholder.
C4_Witness ==
    /\ pc = "act"
    /\ \E i, j \in 1..Len(muts) :
          /\ muts[i].kind = "reduce" /\ muts[i].entry.sym.made = "handler"
          /\ muts[j].kind = "reduce" /\ muts[j].entry.sym.made = "placeholder"
    /\ last.hret = None
    /\ Top(stack).sym = last.self

\* C5: right after reset(), whatever came before, the result is empty and the
\* stack is the single entry (bottom sentinel, state 0), the state __init__
\* leaves; and a reset() that follows a reset() changes nothing.
C5_ResetLikeFresh ==
    /\ [](op = "reset"
          => /\ start = <<>>
             /\ stack = <<[sym |-> [cls |-> "Epsilon", val |-> 0, made |-> "parser"],
                           state |-> 0]>>
             /\ pc = "idle"
             /\ hist = <<>>)
    /\ [](op = "__init__" /\ inst = "live"
          => /\ start = <<>>
             /\ stack = <<[sym |-> [cls |-> "Epsilon", val |-> 0, made |-> "parser"],
                           state |-> 0]>>)
    /\ [][op = "reset" /\ op' = "reset" => UNCHANGED <<stack, start, verbose>>]_vars

\* C5 witness: reset() was called after three calls or more, the last of which
\* raised UnexpectedToken.
C5_Witness ==
    /\ op = "reset"
    /\ ret = "UnexpectedToken"
    /\ calls >= 3

\* C6 (as amended): when assertions are enabled, __init__ on a specification
\* with a nonzero conflict count raises, and no instance exists on which
\* token() or eoi() could run.
C6_ConflictsRefusedWithAsserts ==
    (debug /\ _spec.nConflicts # 0)
    => /\ inst # "live"
       /\ calls = 0
       /\ stack = <<>>
       /\ (op = "__init__" => inst = "failed")

\* C6 witness: construction from the conflicting specification has failed.
C6_Witness ==
    /\ debug
    /\ _spec.nConflicts # 0
    /\ op = "__init__"
    /\ inst = "failed"

\* C6 as stated: a specification with a nonzero conflict count never gets a
\* live parser instance.
C6_ConflictsRefused ==
    _spec.nConflicts # 0 => inst # "live"

\* Some eoi() call since __init__/reset() has returned normally.
EoiSucceeded ==
    \E i \in 1..Len(outs) : hist[i] = "<$>" /\ outs[i] = "ok"

\* C7 as stated: the result is non-empty only if some eoi() has returned
\* normally since __init__ or the last reset().
C7_ResultOnlyAfterSuccessfulEoi ==
    start # <<>> => EoiSucceeded

\* C8: when eoi() succeeds, the stack loses exactly its top entry, the
\* end-of-input sentinel, and the result is the one-element list of the symbol
\* of the entry that was beneath it, which is then the top of the stack.
C8_ResultIsSlotBeneathSentinel ==
    [][(pc = "accept" /\ pc' = "idle" /\ ret' = "ok")
       => /\ Top(stack).sym = [cls |-> "EndOfInput", val |-> 0, made |-> "parser"]
          /\ stack' = Pop(stack, 1)
          /\ start' = <<stack[Len(stack) - 1].sym>>
          /\ start' = <<Top(stack').sym>>]_vars

\* C8 witness: eoi() has succeeded a second time with no reset() in between.
C8_Witness ==
    /\ pc = "idle"
    /\ op = "eoi"
    /\ ret = "ok"
    /\ Len(hist) >= 2
    /\ hist[Len(hist)] = "<$>"
    /\ \E i \in 1..(Len(hist) - 1) : hist[i] = "<$>" /\ outs[i] = "ok"
    /\ start = <<Top(stack).sym>>

\* The stack that the mutations ms, applied in order, make of stk.
RECURSIVE Replay(_, _)
Replay(stk, ms) ==
    IF ms = <<>> THEN stk
    ELSE Replay(Append(Pop(stk, ms[1].n), ms[1].entry), Tail(ms))

\* token() has just returned normally (to the caller, or to eoi()).
TokenReturned ==
    \/ pc = "accept"
    \/ pc = "idle" /\ op = "token" /\ ret = "ok"

\* C9: when token() returns normally its stack mutations were reduces followed
\* by exactly one shift, the last of them, and the top entry is the token passed
\* in with the target state of the shift action found in the state beneath it.
C9_OneShiftLast ==
    TokenReturned
    => /\ muts # <<>>
       /\ muts[Len(muts)].kind = "shift"
       /\ \A i \in 1..(Len(muts) - 1) : muts[i].kind = "reduce"
       /\ stack = Replay(stack0, muts)
       /\ Top(stack).sym = sym
       /\ _spec.action[stack[Len(stack) - 1].state][_spec.sym2spec[sym.cls]][1]
             = [type |-> "ShiftAction", nextState |-> Top(stack).state, production |-> ""]

\* C9 witness: a token() call returned after two reduces and a shift.
C9_Witness ==
    /\ pc = "idle"
    /\ op = "token"
    /\ ret = "ok"
    /\ Len(muts) = 3
    /\ muts[1].kind = "reduce"
    /\ muts[2].kind = "reduce"
    /\ Top(stack).sym = sym

\* token() or eoi() has just raised UnexpectedToken.
RaisedUnexpected ==
    pc = "idle" /\ op \in {"token", "eoi"} /\ ret = "UnexpectedToken"

\* C10: when token() or eoi() raises UnexpectedToken, the stack is the stack the
\* call began with after the reductions the call made, with no shift, and the
\* result is the one the call began with.
C10_NoRollbackOnError ==
    RaisedUnexpected
    => /\ \A i \in 1..Len(muts) : muts[i].kind = "reduce"
       /\ stack = Replay(stack0, muts)
       /\ start = start0

\* C10 witness: a token() call raised UnexpectedToken after two reductions.
C10_Witness ==
    /\ RaisedUnexpected
    /\ op = "token"
    /\ Len(muts) = 2
    /\ stack # stack0

\* C11: on a conflict-free, well-formed specification the stack of a live
\* instance is never empty and its slot 0 is (bottom sentinel, state 0), in
\* every state, those after a call raised included; and every iteration of the
\* loop of _act decides under the row of the action table that belongs to the
\* state of the entry then on top: no entry there raises UnexpectedToken, a
\* shift entry pushes (incoming symbol, its target state), a reduce entry
\* reduces by its production.
C11_StackInvariant ==
    /\ []((inst = "live" /\ spec \in WellFormed)
          => /\ stack # <<>>
             /\ stack[1] = [sym |-> [cls |-> "Epsilon", val |-> 0, made |-> "parser"],
                            state |-> 0])
    /\ [][(pc = "act" /\ spec \in WellFormed)
          => LET row == _spec.action[stack[Len(stack)].state]
                 d == _spec.sym2spec[sym.cls]
             IN  IF d \notin DOMAIN row
                 THEN pc' = "idle" /\ ret' = "UnexpectedToken" /\ stack' = stack
                 ELSE /\ row[d][1].type = "ShiftAction"
                         => stack' = Append(stack, [sym |-> sym,
                                                    state |-> row[d][1].nextState])
                      /\ row[d][1].type = "ReduceAction"
                         => /\ last'.production = row[d][1].production
                            /\ Len(muts') = Len(muts) + 1
                            /\ muts'[Len(muts')].kind = "reduce"]_vars

\* C11 witness: an eoi() call made reductions and then raised UnexpectedToken;
\* the stack, three entries or more, still stands on the bottom sentinel.
C11_Witness ==
    /\ spec \in WellFormed
    /\ RaisedUnexpected
    /\ op = "eoi"
    /\ muts # <<>>
    /\ Len(stack) >= 3
    /\ stack[1].sym.cls = "Epsilon"

\* The loop of _act finds no entry for the incoming descriptor in the row of the
\* top state.
NoEntry ==
    /\ pc = "act"
    /\ _spec.sym2spec[sym.cls] \notin DOMAIN _spec.action[Top(stack).state]

\* The entry it finds does not hold exactly one action.
MultiAction ==
    /\ pc = "act"
    /\ _spec.sym2spec[sym.cls] \in DOMAIN _spec.action[Top(stack).state]
    /\ Len(_spec.action[Top(stack).state][_spec.sym2spec[sym.cls]]) # 1

\* The reduce it is about to make finds no goto entry for the production's
\* left-hand side in the state uncovered by the pops.
GotoMiss ==
    /\ ReduceDue
    /\ Len(stack) > Len(DueProduction.rhs)
    /\ DueProduction.lhs
          \notin DOMAIN _spec.goto[stack[Len(stack) - Len(DueProduction.rhs)].state]

\* After eoi()'s loop the top of the stack is not the end-of-input sentinel.
NotSentinel == pc = "accept" /\ Top(stack).sym # sym

\* The symbol eoi() accepts does not carry the start descriptor.
WrongStart ==
    /\ pc = "accept"
    /\ Len(stack) >= 3
    /\ _spec.sym2spec[stack[2].sym.cls] # _spec.userStartSym

\* The step ends the call in progress with a failure other than UnexpectedToken.
FailsLoudly ==
    /\ pc' = "idle"
    /\ ret' \notin {"ok", "UnexpectedToken"}
    /\ outs' = Append(outs, ret')

\* C12 (as amended): whatever the specification, a call raises UnexpectedToken
\* only when the row of the top state has no entry for the incoming descriptor;
\* a goto lookup miss during a reduce ends the call with a failure that is not
\* UnexpectedToken; and, when assertions are enabled, so do an entry holding
\* more than one action, a top of stack other than the end-of-input sentinel
\* after eoi()'s loop, and an accepted symbol without the start descriptor.
C12_InternalFailuresSurfaceWithAsserts ==
    [][/\ (pc = "act" /\ pc' = "idle" /\ ret' = "UnexpectedToken") => NoEntry
       /\ (pc = "accept" /\ pc' = "idle") => ret' # "UnexpectedToken"
       /\ (GotoMiss /\ ~MultiAction) => FailsLoudly /\ ret' = "KeyError"
       /\ (debug /\ (GotoMiss \/ MultiAction \/ NotSentinel \/ WrongStart))
             => FailsLoudly]_vars

\* C12 witness: a reduce of T -> number missed its goto entry and the call ended
\* with KeyError.
C12_Witness ==
    /\ spec = "ExprNoGoto"
    /\ pc = "idle"
    /\ ret = "KeyError"
    /\ outs # <<>>
    /\ outs[Len(outs)] = "KeyError"
    /\ \A i \in 1..(Len(outs) - 1) : outs[i] = "ok"

\* C12 as stated: with or without assertions, every internal invariant
\* violation ends the call with a failure other than UnexpectedToken.
C12_InternalFailuresNeverSwallowed ==
    [][/\ (pc = "act" /\ pc' = "idle" /\ ret' = "UnexpectedToken") => NoEntry
       /\ (GotoMiss \/ MultiAction \/ NotSentinel \/ WrongStart) => FailsLoudly]_vars

\* C13: on Opt -> (empty) | bang, when eoi() is the first call after __init__ or
\* reset(), its first stack mutation is the reduce by the empty production, which
\* pops no entry and pushes one Opt entry on the stack the call began with; the
\* second shifts the end-of-input sentinel; and the call returns normally with
\* that Opt symbol as the result, on top of the bottom sentinel.
C13_EmptyProductionOnEoi ==
    (spec = "Opt" /\ inst = "live" /\ hist = <<"<$>">>)
    => /\ stack0 = <<[sym |-> [cls |-> "Epsilon", val |-> 0, made |-> "parser"],
                      state |-> 0]>>
       /\ Len(muts) >= 1
          => /\ muts[1].kind = "reduce"
             /\ muts[1].n = 0
             /\ muts[1].entry.sym.cls = "NontermOpt"
             /\ last.production = "Opt_empty"
             /\ last.rhs = <<>>
             /\ SubSeq(stack, 1, 2) = Append(stack0, muts[1].entry)
       /\ Len(muts) >= 2
          => /\ muts[2].kind = "shift"
             /\ muts[2].entry.sym = [cls |-> "EndOfInput", val |-> 0, made |-> "parser"]
       /\ pc = "act" => Len(muts) <= 1
       /\ pc = "accept" => Len(muts) = 2 /\ Len(stack) = 3
       /\ pc = "idle"
          => /\ outs = <<"ok">>
             /\ Len(muts) = 2
             /\ start = <<muts[1].entry.sym>>
             /\ stack = Append(stack0, muts[1].entry)

\* C13 witness: after earlier calls and a reset(), eoi() alone has been accepted
\* with an Opt as result.
C13_Witness ==
    /\ spec = "Opt"
    /\ pc = "idle"
    /\ calls >= 2
    /\ hist = <<"<$>">>
    /\ outs = <<"ok">>
    /\ Len(start) = 1
    /\ start[1].cls = "NontermOpt"
    /\ Len(stack) = 2

\* C14: after every call, whatever the verbosity flag was during each of the
\* calls since __init__/reset(), the instance has the stack and the result, and
\* its calls had the outcomes, of an instance on the same specification that
\* was fed the same calls with tracing off throughout; so any two instances fed
\* the same calls agree, however their flags were set.
C14_TracingHasNoEffect ==
    (inst = "live" /\ pc = "idle")
    => /\ stack = Solo(Compiled(spec), args).stack
       /\ start = Solo(Compiled(spec), args).start
       /\ outs = Solo(Compiled(spec), args).outs

\* C14 witness: with tracing on, an eoi() call has made two reductions or more,
\* shifted and accepted, printing the stack on entry, after each reduction and
\* on acceptance.
C14_Witness ==
    /\ pc = "idle"
    /\ op = "eoi"
    /\ verbose
    /\ ret = "ok"
    /\ Len(muts) >= 3
    /\ Len(args) >= 3
    /\ start # <<>>

\* C15: with two instances on one Spec object and their calls interleaved in
\* any way, the Spec object stays as it was compiled, and each instance has the
\* stack and the result, and its calls had the outcomes, of an instance that
\* made the same calls with the Spec object to itself.
C15_SpecSharedReadOnly ==
    /\ shared = Compiled(spec)
    /\ (inst = "live" /\ pc = "idle")
       => /\ stack = Solo(Compiled(spec), args).stack
          /\ start = Solo(Compiled(spec), args).start
          /\ outs = Solo(Compiled(spec), args).outs
    /\ twin.inst = "live"
       => /\ twin.stack = Solo(Compiled(spec), twin.args).stack
          /\ twin.start = Solo(Compiled(spec), twin.args).start
          /\ twin.outs = Solo(Compiled(spec), twin.args).outs

\* C15 witness: the second instance made a call while the first was inside the
\* loop of _act; both have since been accepted, each with its own result.
C15_Witness ==
    /\ pc = "idle"
    /\ ret = "ok"
    /\ start # <<>>
    /\ twin.during = "act"
    /\ twin.start # <<>>
    /\ twin.outs[Len(twin.outs)] = "ok"
    /\ twin.args # args

\* C16: a reduce by production P with n right-hand-side symbols pushes an entry
\* whose state is goto[s][P.lhs], s being the state of the entry that the n pops
\* uncover; when n = 0 that is the entry on top before the push.
C16_GotoAfterReduction ==
    [][(ReduceDue /\ spec \in SpecNames)
       => LET n == Len(DueProduction.rhs)
              s == stack[Len(stack) - n].state
          IN  /\ Len(stack') = Len(stack) - n + 1
              /\ stack'[Len(stack')].state = _spec.goto[s][DueProduction.lhs]
              /\ n = 0 => stack'[Len(stack')].state
                             = _spec.goto[stack[Len(stack)].state][DueProduction.lhs]
              /\ stack'[Len(stack') - 1] = stack[Len(stack) - n]]_vars

\* C16 witness: a reduce of three entries has pushed, on the entry it uncovered,
\* an entry in the goto state of that entry.
C16_Witness ==
    /\ pc = "act"
    /\ muts # <<>>
    /\ muts[Len(muts)].kind = "reduce"
    /\ muts[Len(muts)].n = 3
    /\ Len(stack) >= 2
    /\ stack[Len(stack)].state
          = _spec.goto[stack[Len(stack) - 1].state][_spec.sym2spec[stack[Len(stack)].sym.cls]]

\* The loop of _act is about to call _reduce: a reduce is due and no assertion
\* stops the iteration before it.
ReduceRuns == ReduceDue /\ ~(debug /\ MultiAction)

\* The symbols of the top n entries of the stack, deepest first.
TopSymbols(n) == [i \in 1..n |-> stack[Len(stack) - n + i].sym]

\* C17: a reduce by a production with n right-hand-side symbols makes one
\* handler invocation: its first argument is a new placeholder of the
\* left-hand-side class and the others are the symbols of the top n stack
\* entries, deepest first; what the reduce pushes is that invocation's outcome;
\* the entries are still on the stack when the handler runs (if it raises, the
\* stack is as it was); and no other step invokes a handler.
C17_HandlerInvocation ==
    [][/\ ReduceRuns
          => LET n == Len(DueProduction.rhs)
                 ph == Sym(_spec.nontermType[DueProduction.lhs], 0, "placeholder")
                 h == Method(DueProduction.method, ph, TopSymbols(n))
             IN  /\ last'.production = DueName
                 /\ last'.placeholder = ph
                 /\ Len(last'.rhs) = n
                 /\ last'.rhs = TopSymbols(n)
                 /\ last'.self = h.self
                 /\ last'.hret = h.ret
                 /\ last'.exc # "" => stack' = stack
                 /\ (last'.exc = "" /\ ~GotoMiss)
                       => /\ Top(stack').sym = IF h.ret = None THEN h.self ELSE h.ret
                          /\ Len(muts') = Len(muts) + 1
       /\ (pc = "act" /\ ~ReduceRuns) => last' = last
       /\ pc # "act" => (last' = last \/ last' = NoCall)]_vars

\* C17 witness: the handler of E -> E plus T was handed an E, a plus and a T, in
\* that order, and the placeholder it filled is on top of the stack.
C17_Witness ==
    /\ pc = "act"
    /\ last.production = "E_plus"
    /\ Len(last.rhs) = 3
    /\ last.rhs[1].cls = "NontermE"
    /\ last.rhs[2].cls = "TokenPlus"
    /\ last.rhs[3].cls = "NontermT"
    /\ last.exc = ""
    /\ Top(stack).sym = last.self
    /\ muts[Len(muts)].n = 3

\* The handler of the reduce that is about to run raises.
HandlerRaises == ReduceRuns /\ Raises(DueProduction.method) # ""

\* C20: when the handler invoked by a reduce raises, the call ends with that
\* exception and the stack and the result are what they were when that reduce
\* started: nothing popped, nothing pushed; the reductions the call completed
\* before it remain applied.
C20_FailingHandlerAppliesNothing ==
    [][HandlerRaises
       => /\ stack' = stack
          /\ start' = start
          /\ muts' = muts
          /\ stack' = Replay(stack0, muts)
          /\ pc' = "idle"
          /\ ret' = Raises(DueProduction.method)
          /\ outs' = Append(outs, ret')
          /\ last'.production = DueName
          /\ last'.exc = ret']_vars

\* C20 witness: in one eoi() call the reduce of T -> number went through and the
\* handler of E -> E plus T then raised; the T is on the stack, on top of the
\* plus and the E.
C20_Witness ==
    /\ pc = "idle"
    /\ op = "eoi"
    /\ ret = "ValueError"
    /\ last.production = "E_plus"
    /\ Len(muts) = 1
    /\ muts[1].kind = "reduce"
    /\ Len(stack) = 4
    /\ Top(stack).sym.cls = "NontermT"
    /\ stack # stack0
    /\ start = <<>>

\* C18: on a conflict-free, well-formed specification the loop of _act, once
\* entered, is left; it is left by a shift or by UnexpectedToken; and the
\* reduces a call makes before that are at most two for each entry of the stack
\* the call began with, and one.
C18_LoopTerminates ==
    /\ (pc = "act" /\ spec \in WellFormed) ~> (pc # "act")
    /\ [][(pc = "act" /\ pc' # "act" /\ spec \in WellFormed)
          => \/ pc' = "idle" /\ ret' = "UnexpectedToken" /\ outs' = Append(outs, ret')
             \/ /\ muts' = Append(muts, [kind |-> "shift", n |-> 0,
                                         entry |-> stack'[Len(stack')]])
                /\ stack'[Len(stack')].sym = sym
                /\ ret' \in {ret, "ok"}]_vars
    /\ [](spec \in WellFormed => Len(muts) <= 2 * Len(stack0) + 2)

\* C18 witness: the loop of an eoi() call went round three times, reducing twice
\* and then shifting, and has been left.
C18_Witness ==
    /\ spec \in WellFormed
    /\ pc = "accept"
    /\ Len(muts) = 3
    /\ muts[1].kind = "reduce"
    /\ muts[2].kind = "reduce"
    /\ muts[3].kind = "shift"

\* eoi() has just returned normally.
EoiReturned == pc = "idle" /\ op = "eoi" /\ ret = "ok"

\* C19: on a conflict-free, well-formed specification, right after an eoi() that
\* returned normally, whatever calls came before it, the stack has exactly two
\* entries: (bottom sentinel, state 0) in slot 0 and, in slot 1, the accepted
\* symbol, which carries the start descriptor and is the one element of the
\* result; the end-of-input sentinel is in no slot.
C19_StackAfterAccept ==
    (spec \in WellFormed /\ EoiReturned)
    => /\ Len(stack) = 2
       /\ stack[1] = [sym |-> [cls |-> "Epsilon", val |-> 0, made |-> "parser"],
                      state |-> 0]
       /\ start = <<stack[2].sym>>
       /\ _spec.sym2spec[stack[2].sym.cls] = _spec.userStartSym
       /\ \A i \in 1..Len(stack) : stack[i].sym.cls # "EndOfInput"

\* C19 witness: eoi() returned normally on an instance that had a call raise
\* UnexpectedToken earlier and was not reset since.
C19_Witness ==
    /\ spec \in WellFormed
    /\ EoiReturned
    /\ \E i \in 1..Len(outs) : outs[i] = "UnexpectedToken"
    /\ Len(stack) = 2
    /\ start = <<stack[2].sym>>

====
